---- MODULE Spec2Model ----
(***************************************************************************)
(* A model of the Vastu report server (src/server.js): the zone            *)
(* classifier getVastuZone, the cusp warning logic of the report route,    *)
(* and the request handlers /api/generateReport and /api/handleChat with   *)
(* their calls to the external model.                                      *)
(*                                                                         *)
(* Angles are fixed-point numbers counted in quarter degrees: 11.25, 22.5, *)
(* 10.0 and 360 are the integers 45, 90, 40 and 1440.  Every value of the  *)
(* quarter-degree grid and every sum, remainder and quotient the code      *)
(* forms of them is exact in IEEE double arithmetic (a quotient by 22.5    *)
(* that is not an integer is at least 1/90 away from one), so the integer  *)
(* arithmetic below computes what the JavaScript computes on these inputs. *)
(*                                                                         *)
(* A JavaScript string is a sequence of tokens (strings); a template       *)
(* literal is the concatenation of its literal pieces and its              *)
(* interpolated values.  The empty string is the empty sequence.           *)
(***************************************************************************)
EXTENDS Integers, Sequences, FiniteSets, TLC

(* ---------------- bounds ---------------- *)

\* Headings range over [-MaxTurns*360, (MaxTurns+1)*360) degrees, and the
\* periodicity shift k over -MaxTurns..MaxTurns.
MaxTurns == 1

(* ---------------- program constants (quarter degrees) ---------------- *)

\* const offset = 11.25
offset == 45

\* the divisor 22.5 of getVastuZone
ZoneWidth == 90

\* the modulus 360 of getVastuZone and of the cusp logic
FullCircle == 1440

\* the perturbation 10.0 of the cusp logic
CuspMargin == 40

VASTU_ZONES_16 ==
    << "N", "NNE", "NE", "ENE", "E", "ESE", "SE", "SSE",
       "S", "SSW", "SW", "WSW", "W", "WNW", "NW", "NNW" >>

\* The value JavaScript gives for an array index that is out of the table
\* and for a missing property.
Undefined == "undefined"

(* ---------------- JavaScript arithmetic ---------------- *)

\* a % b of JavaScript: the remainder takes the sign of the dividend.
JsRem(a, b) == IF a >= 0 THEN a % b ELSE -((-a) % b)

\* Math.floor(a / b) for b > 0 (\div rounds towards minus infinity).
FloorDiv(a, b) == a \div b

\* n degrees on the quarter-degree grid.
Deg(n) == 4 * n

\* arr[i] of JavaScript for a numeric index i: undefined outside the array.
ArrayAt(arr, i) == IF i >= 0 /\ i < Len(arr) THEN arr[i + 1] ELSE Undefined

(* ---------------- the zone classifier ---------------- *)

\* A classifier that forgets the offset: zone arcs would start at the zone
\* centres.
getVastuZone_NoOffset(degrees) ==
    LET index == FloorDiv(JsRem(degrees, FullCircle), ZoneWidth)
    IN  ArrayAt(VASTU_ZONES_16, JsRem(index, 16))

\* A classifier that rounds to the nearest zone index where the code floors.
getVastuZone_Round(degrees) ==
    LET index == FloorDiv(2 * JsRem(degrees + offset, FullCircle) + ZoneWidth,
                          2 * ZoneWidth)
    IN  ArrayAt(VASTU_ZONES_16, JsRem(index, 16))

getVastuZone(degrees) ==
    LET index == FloorDiv(JsRem(degrees + offset, FullCircle), ZoneWidth)
    IN  ArrayAt(VASTU_ZONES_16, JsRem(index, 16))

(* ---------------- JavaScript values ---------------- *)

\* A value of the request body that the code tests with typeof: a number
\* (n, quarter degrees), a string (s) or undefined (the field is absent).
NumberValue(n) == [t |-> "number", n |-> n, s |-> ""]
StringValue(s) == [t |-> "string", n |-> 0, s |-> s]
UndefinedValue == [t |-> "undefined", n |-> 0, s |-> ""]

\* x.toFixed(1) for x on the quarter-degree grid: the sign, then the
\* magnitude rounded to tenths, a tie going to the larger tenth.
toFixed1(q) ==
    LET m == IF q < 0 THEN -q ELSE q
        n == (5 * m + 1) \div 2
    IN  (IF q < 0 THEN "-" ELSE "") \o ToString(n \div 10) \o "."
            \o ToString(n % 10)

(* ---------------- the cusp warning logic ---------------- *)

\* typeof userAngle === 'number' && userAngle !== 0
cuspChecked(userAngle) == userAngle.t = "number" /\ userAngle.n # 0

zone1Of(a) == getVastuZone(a)
zone2Of(a) == getVastuZone(JsRem(a + CuspMargin, FullCircle))
\* A downward perturbation by a whole zone width.
zone3Of_Wide(a) == getVastuZone(JsRem(a - ZoneWidth + FullCircle, FullCircle))

zone3Of(a) == getVastuZone(JsRem(a - CuspMargin + FullCircle, FullCircle))

\* A detector that perturbs by the full zone width instead of 10 degrees.
cuspDetected_Wide(a) ==
    \/ zone1Of(a) # getVastuZone(JsRem(a + ZoneWidth, FullCircle))
    \/ zone1Of(a) # zone3Of(a)

\* zone1 !== zone2 || zone1 !== zone3
cuspDetected(a) == zone1Of(a) # zone2Of(a) \/ zone1Of(a) # zone3Of(a)

\* An alternate zone that always takes the -10 degree classification.
otherZoneOf_Minus(a) == zone3Of(a)

\* (zone1 !== zone2) ? zone2 : zone3
otherZoneOf(a) == IF zone1Of(a) # zone2Of(a) THEN zone2Of(a) ELSE zone3Of(a)

\* The opening and the closing of the section title the warning asks for:
\* **"VI. Cusp Analysis (${otherZone} Zone)"**
CuspHeadingOpen == "**\"VI. Cusp Analysis ("
CuspHeadingClose == " Zone)\"**"

\* The template literal assigned to cuspWarning ("deg" stands for the
\* degree sign).
cuspWarningText(a) ==
    << "**CRITICAL WARNING: CUSP DETECTION** The user's locked angle of **",
       toFixed1(a),
       "deg** is on the border of two Vastu zones. Your analysis **MUST** address this. Start your report with this warning: \"**Warning: Potential Inaccuracy Detected** Your room's locked direction is on the border of the **",
       zone1Of(a),
       "** and **",
       otherZoneOf(a),
       "** zones.\" Then, in your main analysis (for the standard report), you MUST also add a *brief* section titled: ",
       CuspHeadingOpen,
       otherZoneOf(a),
       CuspHeadingClose,
       " Briefly list 2-3 key Vastu defects that would apply if the room were in the **",
       otherZoneOf(a),
       "** zone instead." >>

\* A cusp block that builds the warning whatever the angle is.
cuspWarningOf_Unconditional(userAngle) == cuspWarningText(userAngle.n)

\* let cuspWarning = ""; ... the value it has after the cusp block.
cuspWarningOf(userAngle) ==
    IF cuspChecked(userAngle) /\ cuspDetected(userAngle.n)
    THEN cuspWarningText(userAngle.n)
    ELSE << >>

(* ---------------- JavaScript strings ---------------- *)

Range(seq) == { seq[i] : i \in DOMAIN seq }

\* String(x) for a number x of the quarter-degree grid.
numberToString(q) ==
    LET m == IF q < 0 THEN -q ELSE q
        frac == CASE m % 4 = 0 -> ""
                  [] m % 4 = 1 -> ".25"
                  [] m % 4 = 2 -> ".5"
                  [] OTHER     -> ".75"
    IN  (IF q < 0 THEN "-" ELSE "") \o ToString(m \div 4) \o frac

\* `${v}`: the string a template literal interpolates for a value.
jsString(v) ==
    CASE v.t = "number" -> numberToString(v.n)
      [] v.t = "string" -> v.s
      [] OTHER          -> Undefined

\* the truthiness of a value: 0, "" and undefined are falsy.
truthy(v) ==
    CASE v.t = "number" -> v.n # 0
      [] v.t = "string" -> v.s # ""
      [] OTHER          -> FALSE

\* `${v || alt}`
jsStringOr(v, alt) == IF truthy(v) THEN jsString(v) ELSE alt

(* ---------------- stripEmojis ---------------- *)

\* The characters of the messages: a plain letter, the copyright sign, a
\* symbol of the block U+2000..U+3300 and a pictograph beyond the basic
\* plane (one code point, a surrogate pair in UTF-16).
Plain == "a"
Copyright == "(c)"
Star == "U+2605"
Emoji == "U+1F600"

\* The regular expression carries the u flag, so it matches code points:
\* the alternatives \ud83c[...], \ud83d[...] and \ud83e[...] start with a
\* lone lead surrogate, which is no part of a well-formed pair.
strippedChars == { Copyright, Star }

RECURSIVE removeChars(_, _)
removeChars(str, chars) ==
    IF str = << >> THEN << >>
    ELSE IF Head(str) \in chars THEN removeChars(Tail(str), chars)
    ELSE << Head(str) >> \o removeChars(Tail(str), chars)

stripEmojis(str) == IF str = << >> THEN << >> ELSE removeChars(str, strippedChars)

(* ---------------- the parts of a model request ---------------- *)

InlinePart(data) == [kind |-> "inlineData", data |-> data, text |-> << >>]
TextPart(text) == [kind |-> "text", data |-> "", text |-> text]

\* Whether frame.heading.toFixed(1) raises a TypeError.
headingThrows(frame) == frame.heading.t # "number"

\* `--- Visual Data Segment ${index + 1} Captured at Heading ... ---`
frameCaption(frame, index) ==
    << "--- Visual Data Segment ", ToString(index + 1),
       " Captured at Heading ", toFixed1(frame.heading.n),
       " degrees (Vastu Zone: ", frame.zone, ") ---" >>

RECURSIVE framePartsFrom(_, _)
framePartsFrom(frames, index) ==
    IF index >= Len(frames) THEN << >>
    ELSE << InlinePart(frames[index + 1].image),
            TextPart(frameCaption(frames[index + 1], index)) >>
         \o framePartsFrom(frames, index + 1)

\* scanData.capturedFrames && scanData.capturedFrames.length > 0
hasFrames(scanData) == scanData.hasFrames /\ Len(scanData.capturedFrames) > 0

\* An imageParts array left empty when there are no frames.
imagePartsOf_NoPlaceholder(scanData) ==
    IF hasFrames(scanData)
    THEN framePartsFrom(scanData.capturedFrames, 0)
    ELSE << >>

\* The imageParts array the report route builds.
imagePartsOf(scanData) ==
    IF hasFrames(scanData)
    THEN framePartsFrom(scanData.capturedFrames, 0)
    ELSE << TextPart(<< "No visual data provided." >>) >>

\* Whether building imageParts raises (a frame whose heading is no number).
imagePartsThrow(scanData) ==
    /\ hasFrames(scanData)
    /\ \E i \in DOMAIN scanData.capturedFrames :
           headingThrows(scanData.capturedFrames[i])

(* ---------------- the prompts ---------------- *)

\* The query of generateCoreAssessment.
coreQuery(scanData, parts) ==
    << "CRITICAL INSTRUCTION: You are a Vastu Analyst AI. Analyze the provided ",
       ToString(Len(parts) - 1),
       " visual segments and the following room context: Room: ",
       scanData.currentRoomTag,
       ", Location: ",
       jsString(scanData.roomLocationInHouse),
       ", Concerns: ",
       scanData.holisticIssues,
       ". CRITICAL TASK: ... **Core Vastu Assessment (Defects Found)** ..." >>

\* A template that puts the cusp warning after the findings and the
\* context.
sharedContext_WarningLast(scanData, coreAssessment, cuspWarning) ==
    << "CORE VASTU FINDINGS (MUST BE USED AS THE BASIS FOR ALL REMEDIES):" >>
    \o coreAssessment
    \o << "CONTEXT FOR THIS REPORT: - Area Scanned: ",
          scanData.currentRoomTag,
          " - Location (C-Point): The ",
          scanData.currentRoomTag,
          " is in the ",
          jsStringOr(scanData.roomLocationInHouse, "UNKNOWN"),
          " zone of the house. - Floor: ",
          jsStringOr(scanData.floorNumber, "N/A"),
          " - User's Concerns: ",
          scanData.holisticIssues,
          " - Property Surroundings: ",
          scanData.holisticSurroundings >>
    \o cuspWarning

\* The sharedContext template of getAiQuery.
sharedContext(scanData, coreAssessment, cuspWarning) ==
    cuspWarning
    \o << "CORE VASTU FINDINGS (MUST BE USED AS THE BASIS FOR ALL REMEDIES):" >>
    \o coreAssessment
    \o << "CONTEXT FOR THIS REPORT: - Area Scanned: ",
          scanData.currentRoomTag,
          " - Location (C-Point): The ",
          scanData.currentRoomTag,
          " is in the ",
          jsStringOr(scanData.roomLocationInHouse, "UNKNOWN"),
          " zone of the house. - Floor: ",
          jsStringOr(scanData.floorNumber, "N/A"),
          " - User's Concerns: ",
          scanData.holisticIssues,
          " - Property Surroundings: ",
          scanData.holisticSurroundings >>

getAiQuery(scanData, isDeepAnalysis, coreAssessment, cuspWarning) ==
    IF isDeepAnalysis
    THEN << "CRITICAL INSTRUCTION: You are a Master Vastu Shastra Analyst AI, specializing in structural and permanent solutions. ..." >>
         \o sharedContext(scanData, coreAssessment, cuspWarning)
         \o << "CRITICAL TASK: ... **Expert Analysis (Structural Recommendations)** ..." >>
    ELSE << "CRITICAL INSTRUCTION: You are a Master Vastu Shastra Analyst AI, specializing in non-structural, actionable remedies. ..." >>
         \o sharedContext(scanData, coreAssessment, cuspWarning)
         \o << "Based on ALL this data, provide a comprehensive report. ... scanned area (",
               scanData.currentRoomTag,
               ") based on its location (",
               jsString(scanData.roomLocationInHouse),
               "). ... If the CUSP WARNING was provided in the context, you MUST also add a brief section titled: **\"VI. Cusp Analysis (Alternate Zone)\"** ..." >>

\* The system prompt of the chat route.
chatSystemPrompt(chatContextSummary) ==
    << "You are a helpful and friendly Vastu Shastra AI assistant. ... --- REPORT CONTEXT START --- ",
       chatContextSummary,
       " --- REPORT CONTEXT END --- ... VIDEO_LINKS_KNOWLEDGE_BASE ..." >>

(* ---------------- state ---------------- *)

VARIABLES
    hDegrees,   \* the heading handed to getVastuZone and to the cusp logic
    hTurns,     \* the number k of full turns added for the shifted call
    hZone,      \* getVastuZone(hDegrees), once computed
    hShifted,   \* getVastuZone(hDegrees + 360*k), once computed
    hCusp,      \* the outcome of the cusp logic on hDegrees, once computed
    tag,        \* a text, and what the tagging step makes of it once and twice
    apiKey,     \* whether GEMINI_API_KEY is set (read once at process start)
    variant,    \* which of the three server files the process runs
    req         \* per request: the body, the handler's position and locals,
                \* the external calls it issued and the responses it sent

hvars == << hDegrees, hTurns, hZone, hShifted, hCusp, tag >>

vars == << hDegrees, hTurns, hZone, hShifted, hCusp, tag, apiKey, variant, req >>

Pending == "pending"

\* The server files: the current two-call server, the older two-call
\* server and the single-call server.
MainVariant == "server.js"
OlderVariant == "part_000"
SingleCallVariant == "part_001"
Variants == { MainVariant, OlderVariant, SingleCallVariant }

NoCusp == [done |-> FALSE, warning |-> << >>]

NoTag == [pc |-> "idle", text |-> << >>, once |-> << >>, twice |-> << >>]

Headings == (-MaxTurns * FullCircle) .. ((MaxTurns + 1) * FullCircle - 1)

Turns == (-MaxTurns) .. MaxTurns

(* ---------------- requests and upstream answers ---------------- *)

\* The requests in flight; each identifier stands for one HTTP request.
RequestIds == { "r1", "r2" }

\* The largest number of captured frames of a scan.
MaxFrames == 2

\* A captured frame: the client sends the image, the heading and the zone.
GoodFrame(i) ==
    [image |-> "jpeg" \o ToString(i),
     heading |-> NumberValue(Deg(45 * (i - 1))),
     zone |-> getVastuZone(Deg(45 * (i - 1)))]

\* A frame whose heading is missing.
BadFrame(i) ==
    [image |-> "jpeg" \o ToString(i), heading |-> UndefinedValue, zone |-> "N"]

\* The frame lists of a scan: n good frames, or n frames the last of which
\* has no heading.
FrameLists ==
    { [i \in 1..n |-> GoodFrame(i)] : n \in 0..MaxFrames }
    \cup { [i \in 1..n |-> IF i = n THEN BadFrame(i) ELSE GoodFrame(i)] :
               n \in 1..MaxFrames }

\* The location angles of the requests: absent, a zone tag, zero, the
\* centre of NE, an angle of NE near ENE, an angle 10 degrees above a
\* boundary, an angle near the 0/360 wrap and a negative angle.
LocationAngles ==
    { UndefinedValue, StringValue("NE"), NumberValue(0), NumberValue(Deg(45)),
      NumberValue(Deg(50)), NumberValue(Deg(355)), NumberValue(Deg(-20)) }

\* The location angle of the scans of more than one frame.
LongScanAngle == NumberValue(Deg(50))

ScanDatas ==
    { x \in { [currentRoomTag |-> "Bedroom",
               roomLocationInHouse |-> a,
               floorNumber |-> UndefinedValue,
               holisticIssues |-> "poor sleep",
               holisticSurroundings |-> "road to the east",
               hasFrames |-> hf,
               capturedFrames |-> fl] :
                   a \in LocationAngles,
                   hf \in BOOLEAN,
                   fl \in FrameLists } :
          Len(x.capturedFrames) > 1 => x.roomLocationInHouse = LongScanAngle }

\* The location angles of the requests for the expert analysis: absent,
\* and an angle that gets a cusp warning.
DeepAngles == { UndefinedValue, NumberValue(Deg(50)) }

\* The body of a report request; hasScanData is false when the body has
\* no scanData field.
ReportBodies ==
    { [isDeepAnalysis |-> FALSE, hasScanData |-> TRUE, scanData |-> sd] :
          sd \in { x \in ScanDatas : x.hasFrames \/ x.capturedFrames = << >> } }
    \cup { [isDeepAnalysis |-> TRUE, hasScanData |-> TRUE, scanData |-> sd] :
          sd \in { x \in ScanDatas :
                      /\ x.hasFrames \/ x.capturedFrames = << >>
                      /\ x.roomLocationInHouse \in DeepAngles } }
    \cup { [isDeepAnalysis |-> FALSE, hasScanData |-> FALSE,
            scanData |-> CHOOSE x \in ScanDatas : TRUE] }

UserMessage(text) == [role |-> "user", parts |-> << text >>]
ModelMessage(text) == [role |-> "model", parts |-> << text >>]

\* The body of a chat request; hasHistory is false when chatHistory is absent.
ChatBodies ==
    { [hasHistory |-> TRUE,
       chatHistory |-> << UserMessage(<< Plain, Emoji, Star, Copyright >>),
                          ModelMessage(<< Plain, Emoji, Star >>),
                          UserMessage(<< Plain >>) >>,
       chatContextSummary |-> "summary of the report"],
      [hasHistory |-> TRUE,
       chatHistory |-> << UserMessage(<< Emoji >>) >>,
       chatContextSummary |-> "summary of the report"],
      [hasHistory |-> FALSE,
       chatHistory |-> << >>,
       chatContextSummary |-> "summary of the report"] }

\* What the external model does with one call.  The fetch is rejected (a
\* transport error), or it is resolved with a complete response: a status
\* and a body, which is JSON or not, and whose first candidate has a text
\* or not.  raw is the body as response.text() returns it.
Rejected ==
    [fetch |-> "rejected", status |-> 0, raw |-> << "request failed: ECONNRESET" >>,
     json |-> FALSE, hasText |-> FALSE, text |-> << >>]

Response(status, raw, json, hasText, text) ==
    [fetch |-> "resolved", status |-> status, raw |-> raw,
     json |-> json, hasText |-> hasText, text |-> text]

\* The number of visual segments of a scan, and of the placeholder tags.
SegmentCount == 8

\* The placeholder tag number k the standard prompt asks the model for.
ImageTag(k) == "[IMAGE_" \o ToString(k) \o "_ANALYSIS]"

\* The numeric marker "k." of a numbered line.
Marker(k) == ToString(k) \o "."

LineBreak == "\n"

\* The line number k of a numbered answer: the marker "k.", the content
\* of the line, the line break.
NumberedLine(k) ==
    << Marker(k), " finding of segment " \o ToString(k), LineBreak >>

RECURSIVE numberedLinesFrom(_)
numberedLinesFrom(k) ==
    IF k > SegmentCount THEN << >>
    ELSE NumberedLine(k) \o numberedLinesFrom(k + 1)

\* An answer of the model made of 8 well-formed numbered lines, 1 to 8.
NumberedText == numberedLinesFrom(1)

(* ---------------- the tagging of the stage-1 output ---------------- *)

\* The largest number of a numeric marker in the texts.
MaxMarker == 9

Markers == { Marker(k) : k \in 1..MaxMarker }

\* Whether the token number i of a text is the first of its line.
LineStart(text, i) == i = 1 \/ text[i - 1] = LineBreak

\* The first line that begins with "k." gets the placeholder tag number k
\* in place of the marker, its content following; a text without such a
\* line is left as it is.
tagOne(text, k) ==
    LET hits == { i \in DOMAIN text : LineStart(text, i) /\ text[i] = Marker(k) }
    IN  IF hits = { } THEN text
        ELSE [text EXCEPT ![CHOOSE i \in hits : \A j \in hits : i <= j] =
                              ImageTag(k)]

\* The substitutions for k, k + 1, ..., 8 in sequence.
RECURSIVE tagFrom(_, _)
tagFrom(text, k) ==
    IF k > SegmentCount THEN text ELSE tagFrom(tagOne(text, k), k + 1)

\* A cleanup that takes one numeric marker from the start of a line and
\* leaves a second one behind it.
RECURSIVE stripResidual_Once(_, _)
stripResidual_Once(text, atStart) ==
    IF text = << >> THEN << >>
    ELSE IF atStart /\ Head(text) \in Markers
    THEN stripResidual_Once(Tail(text), FALSE)
    ELSE << Head(text) >> \o stripResidual_Once(Tail(text), Head(text) = LineBreak)

\* The cleanup: every numeric marker left at the start of a line is taken
\* away.  atStart tells whether the text begins at the start of a line.
RECURSIVE stripResidual(_, _)
stripResidual(text, atStart) ==
    IF text = << >> THEN << >>
    ELSE IF atStart /\ Head(text) \in Markers
    THEN stripResidual(Tail(text), TRUE)
    ELSE << Head(text) >> \o stripResidual(Tail(text), Head(text) = LineBreak)

\* The tagging step: the 8 substitutions, then the cleanup.
tagStage1Output(text) == stripResidual(tagFrom(text, 1), TRUE)

\* The largest number of lines of a text handed to the tagging step.
MaxLines == 3

\* The lines of those texts: a line without marker, well-formed numbered
\* lines, a line numbered beyond 8, lines that begin with two markers and
\* a line already tagged.
TagLines ==
    { << "Core Vastu Assessment", LineBreak >>,
      NumberedLine(1), NumberedLine(2), NumberedLine(SegmentCount),
      << Marker(MaxMarker), " more", LineBreak >>,
      << Marker(MaxMarker), Marker(1), " doubly numbered", LineBreak >>,
      << Marker(2), Marker(1), " doubly numbered", LineBreak >>,
      << ImageTag(1), " finding of segment 1", LineBreak >> }

RECURSIVE flatten(_)
flatten(lines) ==
    IF lines = << >> THEN << >> ELSE Head(lines) \o flatten(Tail(lines))

TagTexts ==
    { flatten(lines) : lines \in UNION { [1..n -> TagLines] : n \in 0..MaxLines } }
    \cup { NumberedText }

SuccessStatus == { 200 }
FailureStatus == { 429, 503 }

Outcomes ==
    { Rejected }
    \cup { Response(st, << "{candidates: numbered text}" >>, TRUE, TRUE, NumberedText) :
               st \in SuccessStatus }
    \cup { Response(st, << "{candidates: empty text}" >>, TRUE, TRUE, << >>) :
               st \in SuccessStatus }
    \cup { Response(st, << "{}" >>, TRUE, FALSE, << >>) : st \in SuccessStatus }
    \cup { Response(st, << "<html>" >>, FALSE, FALSE, << >>) : st \in SuccessStatus }
    \cup { Response(st, << "{error: overloaded}" >>, TRUE, FALSE, << >>) :
               st \in FailureStatus }

\* response.ok
ok(response) == response.status >= 200 /\ response.status <= 299

\* The fallback taken only for an absent text (?? in place of ||).
textOr_Nullish(response, alt) ==
    IF response.hasText THEN response.text ELSE alt

\* result.candidates?.[0]?.content?.parts?.[0]?.text || alt
textOr(response, alt) ==
    IF response.hasText /\ response.text # << >> THEN response.text ELSE alt

\* The message of the error a rejected fetch or a failed response.json()
\* raises.
fetchErrorMessage(response) ==
    IF response.fetch = "rejected" THEN response.raw
    ELSE << "invalid json response body" >>

\* An error message that leaves the status code out.
apiErrorMessage_NoStatus(prefix, response) ==
    << prefix, " - " >> \o response.raw

\* The message of the Error thrown for a response that is not ok.
apiErrorMessage(prefix, response) ==
    << prefix, ToString(response.status), " - " >> \o response.raw

CoreFallback ==
    << "**Core Vastu Assessment (Defects Found)**\n- Assessment failed to generate. Please rescan." >>

ChatFallback == << "Sorry, I couldn't process that query." >>

Separator == << "\n\n---\n\n" >>

\* The timeout option of a fetch that has none.
NoTimeout == "none"

\* An external call: the stage, the parts sent, how it ended, the text of
\* its response and the timeout option of the fetch.
Call(stage, parts) ==
    [stage |-> stage, parts |-> parts, state |-> "pending", status |-> 0,
     text |-> << >>, timeout |-> NoTimeout]

\* res.status(500).json({ error: message })
ErrorResponse(message) == [status |-> 500, body |-> [error |-> message]]

\* res.json({ text: text })
TextResponse(text) == [status |-> 200, body |-> [text |-> text]]

NoRequest ==
    [kind |-> "none", pc |-> "idle", body |-> [hasScanData |-> FALSE],
     cuspWarning |-> << >>, imageParts |-> << >>, coreAssessment |-> << >>,
     userQuery |-> << >>, calls |-> << >>, res |-> << >>]

(* ---------------- the classifier and the cusp logic on every heading ---- *)

ZoneInit ==
    /\ hDegrees \in Headings
    /\ hTurns \in Turns
    /\ hZone = Pending
    /\ hShifted = Pending
    /\ hCusp = NoCusp
    /\ tag = NoTag
    /\ apiKey = TRUE
    /\ variant = MainVariant
    /\ req = [r \in RequestIds |-> NoRequest]

\* getVastuZone applied to the heading and to the heading k turns further.
Classify ==
    /\ hZone = Pending
    /\ hZone' = getVastuZone(hDegrees)
    /\ hShifted' = getVastuZone(hDegrees + FullCircle * hTurns)
    /\ UNCHANGED << hDegrees, hTurns, hCusp, tag, apiKey, variant, req >>

\* The cusp block of the report route applied to a numeric location angle.
DetectCusp ==
    /\ ~hCusp.done
    /\ hCusp' = [done |-> TRUE, warning |-> cuspWarningOf(NumberValue(hDegrees))]
    /\ UNCHANGED << hDegrees, hTurns, hZone, hShifted, tag, apiKey, variant, req >>

ZoneNext == Classify \/ DetectCusp

ZoneSpec == ZoneInit /\ [][ZoneNext]_vars

(* ---------------- the tagging step on every text ---------------- *)

TagInit ==
    /\ hDegrees = 0
    /\ hTurns = 0
    /\ hZone = Pending
    /\ hShifted = Pending
    /\ hCusp = NoCusp
    /\ tag \in { [NoTag EXCEPT !.pc = "input", !.text = t] : t \in TagTexts }
    /\ apiKey = TRUE
    /\ variant = MainVariant
    /\ req = [r \in RequestIds |-> NoRequest]

\* The tagging step applied to the text.
TagOnce ==
    /\ tag.pc = "input"
    /\ tag' = [tag EXCEPT !.pc = "once", !.once = tagStage1Output(tag.text)]
    /\ UNCHANGED << hDegrees, hTurns, hZone, hShifted, hCusp, apiKey, variant, req >>

\* The tagging step applied to its own output.
TagAgain ==
    /\ tag.pc = "once"
    /\ tag' = [tag EXCEPT !.pc = "twice", !.twice = tagStage1Output(tag.once)]
    /\ UNCHANGED << hDegrees, hTurns, hZone, hShifted, hCusp, apiKey, variant, req >>

TagNext == TagOnce \/ TagAgain

TagSpec == TagInit /\ [][TagNext]_vars

(* ---------------- the request handlers ---------------- *)

\* The handler sends a response and ends.
finish(q, response) == [q EXCEPT !.pc = "done", !.res = Append(@, response)]

\* The external call number i of the request has ended: how, with which
\* HTTP status (0 when the fetch was rejected) and with which text in the
\* first candidate of the body (none when there is no such field).
markCall(q, i, state, out) ==
    [q EXCEPT !.calls[i].state = state, !.calls[i].status = out.status,
              !.calls[i].text = out.text]

\* generateCoreAssessment up to its fetch: the key check, the query, the
\* payload [...parts, { text: query }].
coreAssessmentStart(q, scanData, parts) ==
    IF ~apiKey
    THEN finish(q, ErrorResponse(
             << "Server API Key is not configured for core assessment." >>))
    ELSE [q EXCEPT !.pc = "stage1",
                   !.calls = Append(@, Call("stage1",
                                 parts \o << TextPart(coreQuery(scanData, parts)) >>))]

\* A route that swallows the TypeError of a frame without a numeric
\* heading and goes on to stage 1 with the placeholder part.
reportStart_Lenient(body) ==
    LET q0 == [NoRequest EXCEPT !.kind = "report", !.body = body]
    IN  IF ~apiKey
        THEN finish(q0, ErrorResponse(<< "Server API Key is not configured." >>))
        ELSE IF ~body.hasScanData
        THEN finish(q0, ErrorResponse(
                 << "Cannot read properties of undefined (reading 'roomLocationInHouse')" >>))
        ELSE LET scanData == body.scanData
                 q1 == [q0 EXCEPT !.cuspWarning =
                                      cuspWarningOf(scanData.roomLocationInHouse)]
                 parts == IF imagePartsThrow(scanData)
                          THEN << TextPart(<< "No visual data provided." >>) >>
                          ELSE imagePartsOf(scanData)
             IN  coreAssessmentStart([q1 EXCEPT !.imageParts = parts],
                                     scanData, parts)

\* /api/generateReport from the arrival of the request to its first await:
\* the key check, the cusp block, the image parts, the stage-1 fetch.
reportStart(body) ==
    LET q0 == [NoRequest EXCEPT !.kind = "report", !.body = body]
    IN  IF ~apiKey
        THEN finish(q0, ErrorResponse(<< "Server API Key is not configured." >>))
        ELSE IF ~body.hasScanData
        THEN finish(q0, ErrorResponse(
                 << "Cannot read properties of undefined (reading 'roomLocationInHouse')" >>))
        ELSE LET scanData == body.scanData
                 q1 == [q0 EXCEPT !.cuspWarning =
                                      cuspWarningOf(scanData.roomLocationInHouse)]
             IN  IF imagePartsThrow(scanData)
                 THEN finish(q1, ErrorResponse(
                          << "Cannot read properties of undefined (reading 'toFixed')" >>))
                 ELSE coreAssessmentStart(
                          [q1 EXCEPT !.imageParts = imagePartsOf(scanData)],
                          scanData, imagePartsOf(scanData))

\* A route whose cusp warning is a variable of the module: stage 2 reads
\* what another report request wrote there.
stage2Start_SharedWarning(q, coreAssessment) ==
    LET others == { o \in RequestIds : /\ req[o].kind = "report"
                                       /\ req[o].cuspWarning # q.cuspWarning }
        warning == IF others = { } THEN q.cuspWarning
                   ELSE req[CHOOSE o \in others : TRUE].cuspWarning
        userQuery == getAiQuery(q.body.scanData, q.body.isDeepAnalysis,
                                coreAssessment, warning)
    IN  [q EXCEPT !.coreAssessment = coreAssessment,
                  !.userQuery = userQuery,
                  !.pc = "stage2",
                  !.calls = Append(@, Call("stage2", << TextPart(userQuery) >>))]

\* The stage-2 fetch: the query built from the stage-1 text, sent alone.
stage2Start(q, coreAssessment) ==
    LET userQuery == getAiQuery(q.body.scanData, q.body.isDeepAnalysis,
                                coreAssessment, q.cuspWarning)
    IN  [q EXCEPT !.coreAssessment = coreAssessment,
                  !.userQuery = userQuery,
                  !.pc = "stage2",
                  !.calls = Append(@, Call("stage2", << TextPart(userQuery) >>))]

\* A route that goes on to stage 2 whatever stage 1 did.
stage1Settled_NoAbort(q, out) ==
    IF out.fetch = "rejected" \/ ~ok(out) \/ ~out.json
    THEN stage2Start(markCall(q, 1, "failed", out), CoreFallback)
    ELSE stage2Start(markCall(q, 1, "ok", out), textOr(out, CoreFallback))

\* A route that calls generateCoreAssessment again when its fetch failed.
stage1Settled_Retry(q, out) ==
    IF out.fetch = "rejected" \/ ~ok(out) \/ ~out.json
    THEN [markCall(q, 1, "failed", out) EXCEPT
              !.calls = Append(@, Call("stage1", q.calls[1].parts))]
    ELSE stage2Start(markCall(q, 1, "ok", out), textOr(out, CoreFallback))

\* The stage-1 fetch settles: generateCoreAssessment returns its text or
\* throws, and the route goes on to stage 2 or to its catch block.
stage1Settled(q, out) ==
    IF out.fetch = "rejected"
    THEN finish(markCall(q, 1, "failed", out), ErrorResponse(fetchErrorMessage(out)))
    ELSE IF ~ok(out)
    THEN finish(markCall(q, 1, "failed", out),
                ErrorResponse(apiErrorMessage(
                    "Google API Error (Core Assessment): ", out)))
    ELSE IF ~out.json
    THEN finish(markCall(q, 1, "failed", out), ErrorResponse(fetchErrorMessage(out)))
    ELSE stage2Start(markCall(q, 1, "ok", out), textOr(out, CoreFallback))

\* A route that answers a stage-2 failure with the stage-1 text it has.
stage2Settled_Partial(q, out) ==
    IF out.fetch = "rejected" \/ ~ok(out) \/ ~out.json
    THEN finish(markCall(q, 2, "failed", out), TextResponse(q.coreAssessment))
    ELSE finish(markCall(q, 2, "ok", out),
                TextResponse(q.coreAssessment \o Separator \o textOr(out, << >>)))

\* The stage-2 fetch settles: the final report or the catch block.
stage2Settled(q, out) ==
    IF out.fetch = "rejected"
    THEN finish(markCall(q, 2, "failed", out), ErrorResponse(fetchErrorMessage(out)))
    ELSE IF ~ok(out)
    THEN finish(markCall(q, 2, "failed", out),
                ErrorResponse(apiErrorMessage(
                    "Google API Error (Final Report): ", out)))
    ELSE IF ~out.json
    THEN finish(markCall(q, 2, "failed", out), ErrorResponse(fetchErrorMessage(out)))
    ELSE finish(markCall(q, 2, "ok", out),
                TextResponse(q.coreAssessment \o Separator \o textOr(out, << >>)))

\* chatHistory.map(...): user messages keep their first part, stripped;
\* the other messages pass unchanged.
sanitizeMessage(message) ==
    IF message.role = "user"
    THEN [role |-> "user", parts |-> << stripEmojis(message.parts[1]) >>]
    ELSE message

sanitizedHistoryOf(chatHistory) ==
    [i \in DOMAIN chatHistory |-> sanitizeMessage(chatHistory[i])]

\* A chat route that does not look at the key before its fetch.
chatStart_NoKeyCheck(body) ==
    LET q0 == [NoRequest EXCEPT !.kind = "chat", !.body = body]
    IN  IF ~body.hasHistory
        THEN finish(q0, ErrorResponse(
                 << "Cannot read properties of undefined (reading 'map')" >>))
        ELSE [q0 EXCEPT !.pc = "chat",
                        !.calls = << [stage |-> "chat",
                                      parts |-> sanitizedHistoryOf(body.chatHistory),
                                      system |-> chatSystemPrompt(body.chatContextSummary),
                                      state |-> "pending",
                                      status |-> 0,
                                      text |-> << >>,
                                      timeout |-> NoTimeout] >>]

\* /api/handleChat from the arrival of the request to its fetch.
chatStart(body) ==
    LET q0 == [NoRequest EXCEPT !.kind = "chat", !.body = body]
    IN  IF ~apiKey
        THEN finish(q0, ErrorResponse(<< "Server API Key is not configured." >>))
        ELSE IF ~body.hasHistory
        THEN finish(q0, ErrorResponse(
                 << "Cannot read properties of undefined (reading 'map')" >>))
        ELSE [q0 EXCEPT !.pc = "chat",
                        !.calls = << [stage |-> "chat",
                                      parts |-> sanitizedHistoryOf(body.chatHistory),
                                      system |-> chatSystemPrompt(body.chatContextSummary),
                                      state |-> "pending",
                                      status |-> 0,
                                      text |-> << >>,
                                      timeout |-> NoTimeout] >>]

\* A chat route that answers a response that is not ok with the error and
\* then goes on to send the reply as well.
chatSettled_Twice(q, out) ==
    IF out.fetch = "rejected"
    THEN finish(markCall(q, 1, "failed", out), ErrorResponse(fetchErrorMessage(out)))
    ELSE IF ~ok(out)
    THEN finish(finish(markCall(q, 1, "failed", out),
                       ErrorResponse(apiErrorMessage("Google API Error: ", out))),
                TextResponse(textOr(out, ChatFallback)))
    ELSE IF ~out.json
    THEN finish(markCall(q, 1, "failed", out), ErrorResponse(fetchErrorMessage(out)))
    ELSE finish(markCall(q, 1, "ok", out), TextResponse(textOr(out, ChatFallback)))

\* The chat fetch settles: the reply or the catch block.
chatSettled(q, out) ==
    IF out.fetch = "rejected"
    THEN finish(markCall(q, 1, "failed", out), ErrorResponse(fetchErrorMessage(out)))
    ELSE IF ~ok(out)
    THEN finish(markCall(q, 1, "failed", out),
                ErrorResponse(apiErrorMessage("Google API Error: ", out)))
    ELSE IF ~out.json
    THEN finish(markCall(q, 1, "failed", out), ErrorResponse(fetchErrorMessage(out)))
    ELSE finish(markCall(q, 1, "ok", out), TextResponse(textOr(out, ChatFallback)))

(* ---------------- the older two-call server (part_000) ---------------- *)

cuspWarningText_000(a) ==
    << "**CRITICAL WARNING: CUSP DETECTION** The user's locked angle of **",
       toFixed1(a),
       "deg** is on the border of two Vastu zones. A slight 10-degree pointing error could change the result. Your analysis **MUST** address this. Start your report with this warning: \"**Warning: Potential Inaccuracy Detected** Your room's locked direction is on the border of the **",
       zone1Of(a),
       "** and **",
       otherZoneOf(a),
       "** zones. A small 10-degree error in pointing at the house center can change this reading. We have provided a full analysis for the **",
       zone1Of(a),
       "** zone, but please also review the potential issues if your room is in **",
       otherZoneOf(a),
       "**.\" Then, in your main analysis (for the standard report, not the expert one), you MUST also add a *brief* section titled: ",
       CuspHeadingOpen,
       otherZoneOf(a),
       CuspHeadingClose,
       " Briefly list 2-3 key Vastu defects that would apply if the room were in the **",
       otherZoneOf(a),
       "** zone instead." >>

cuspWarningOf_000(userAngle) ==
    IF cuspChecked(userAngle) /\ cuspDetected(userAngle.n)
    THEN cuspWarningText_000(userAngle.n)
    ELSE << >>

\* capturedFrames.reduce((sum, frame) => sum + frame.heading, 0)
RECURSIVE headingSum(_)
headingSum(frames) ==
    IF frames = << >> THEN 0
    ELSE Head(frames).heading.n + headingSum(Tail(frames))

\* avgHeading.toFixed(1): the sum of the headings over their number (0
\* without frames), rounded to tenths, a tie going to the larger tenth.
\* The sum is in quarter degrees; the quotient is exact in a double for
\* one, two and four frames.
avgHeadingFixed1(scanData) ==
    IF ~hasFrames(scanData) THEN "0.0"
    ELSE LET sum == headingSum(scanData.capturedFrames)
             count == Len(scanData.capturedFrames)
             m == IF sum < 0 THEN -sum ELSE sum
             n == (5 * m + count) \div (2 * count)
         IN  (IF sum < 0 THEN "-" ELSE "") \o ToString(n \div 10) \o "."
                 \o ToString(n % 10)

\* [...new Set(frames.map(f => f.zone))]: the zones in the order of their
\* first occurrence.
RECURSIVE uniqueZones(_, _)
uniqueZones(frames, seen) ==
    IF frames = << >> THEN << >>
    ELSE IF Head(frames).zone \in seen THEN uniqueZones(Tail(frames), seen)
    ELSE << Head(frames).zone >>
             \o uniqueZones(Tail(frames), seen \cup { Head(frames).zone })

\* array.join(', ')
RECURSIVE joinComma(_)
joinComma(items) ==
    IF items = << >> THEN ""
    ELSE IF Len(items) = 1 THEN Head(items)
    ELSE Head(items) \o ", " \o joinComma(Tail(items))

vastuZonesObserved(scanData) ==
    IF hasFrames(scanData)
    THEN joinComma(uniqueZones(scanData.capturedFrames, { }))
    ELSE "N/A"

sharedContext_000(scanData, coreAssessment, cuspWarning) ==
    sharedContext(scanData, coreAssessment, cuspWarning)
    \o << " - Scan Data: Average Heading: ",
          avgHeadingFixed1(scanData),
          " degrees. Zones Covered: ",
          vastuZonesObserved(scanData),
          "." >>

getAiQuery_000(scanData, isDeepAnalysis, coreAssessment, cuspWarning) ==
    IF isDeepAnalysis
    THEN << "CRITICAL INSTRUCTION: You are a Master Vastu Shastra Analyst AI, specializing in structural and permanent solutions. ..." >>
         \o sharedContext_000(scanData, coreAssessment, cuspWarning)
         \o << "CRITICAL TASK: ... **Expert Analysis (Structural Recommendations)** ... e.g., ..." >>
    ELSE << "CRITICAL INSTRUCTION: You are a Master Vastu Shastra Analyst AI, specializing in non-structural, actionable remedies. ..." >>
         \o sharedContext_000(scanData, coreAssessment, cuspWarning)
         \o << "Based on ALL this data, provide a comprehensive report. ... scanned area (",
               scanData.currentRoomTag,
               ") based on its location (",
               jsString(scanData.roomLocationInHouse),
               "). ... If the CUSP WARNING was provided in the context, you MUST also add a brief section titled: **\"VI. Cusp Analysis (Alternate Zone)\"** ..." >>

\* /api/generateReport of the older server up to its first await.
reportStart_000(body) ==
    LET q0 == [NoRequest EXCEPT !.kind = "report", !.body = body]
    IN  IF ~apiKey
        THEN finish(q0, ErrorResponse(<< "Server API Key is not configured." >>))
        ELSE IF ~body.hasScanData
        THEN finish(q0, ErrorResponse(
                 << "Cannot read properties of undefined (reading 'roomLocationInHouse')" >>))
        ELSE LET scanData == body.scanData
                 q1 == [q0 EXCEPT !.cuspWarning =
                                      cuspWarningOf_000(scanData.roomLocationInHouse)]
             IN  IF imagePartsThrow(scanData)
                 THEN finish(q1, ErrorResponse(
                          << "Cannot read properties of undefined (reading 'toFixed')" >>))
                 ELSE coreAssessmentStart(
                          [q1 EXCEPT !.imageParts = imagePartsOf(scanData)],
                          scanData, imagePartsOf(scanData))

\* The stage-2 fetch of the older server: the images again, then the query.
stage2Start_000(q, coreAssessment) ==
    LET userQuery == getAiQuery_000(q.body.scanData, q.body.isDeepAnalysis,
                                    coreAssessment, q.cuspWarning)
    IN  [q EXCEPT !.coreAssessment = coreAssessment,
                  !.userQuery = userQuery,
                  !.pc = "stage2",
                  !.calls = Append(@, Call("stage2",
                                q.imageParts \o << TextPart(userQuery) >>))]

stage1Settled_000(q, out) ==
    IF out.fetch = "rejected"
    THEN finish(markCall(q, 1, "failed", out), ErrorResponse(fetchErrorMessage(out)))
    ELSE IF ~ok(out)
    THEN finish(markCall(q, 1, "failed", out),
                ErrorResponse(apiErrorMessage(
                    "Google API Error (Core Assessment): ", out)))
    ELSE IF ~out.json
    THEN finish(markCall(q, 1, "failed", out), ErrorResponse(fetchErrorMessage(out)))
    ELSE stage2Start_000(markCall(q, 1, "ok", out), textOr(out, CoreFallback))

stage2Settled_000(q, out) ==
    IF out.fetch = "rejected"
    THEN finish(markCall(q, 2, "failed", out), ErrorResponse(fetchErrorMessage(out)))
    ELSE IF ~ok(out)
    THEN finish(markCall(q, 2, "failed", out),
                ErrorResponse(apiErrorMessage("Google API Error: ", out)))
    ELSE IF ~out.json
    THEN finish(markCall(q, 2, "failed", out), ErrorResponse(fetchErrorMessage(out)))
    ELSE finish(markCall(q, 2, "ok", out),
                TextResponse(q.coreAssessment \o Separator \o textOr(out, << >>)))

chatSystemPrompt_000(chatContextSummary) ==
    << "You are a helpful and friendly Vastu Shastra AI assistant. ... --- REPORT CONTEXT START --- ",
       chatContextSummary,
       " --- REPORT CONTEXT END --- ... your response MUST include the full 'Embed_URL' ... VIDEO_LINKS_KNOWLEDGE_BASE ..." >>

\* /api/handleChat of the older server up to its fetch: the history is
\* sent as it came (contents: chatHistory), absent when it was absent.
chatStart_000(body) ==
    LET q0 == [NoRequest EXCEPT !.kind = "chat", !.body = body]
    IN  IF ~apiKey
        THEN finish(q0, ErrorResponse(<< "Server API Key is not configured." >>))
        ELSE [q0 EXCEPT !.pc = "chat",
                        !.calls = << [stage |-> "chat",
                                      parts |-> body.chatHistory,
                                      system |-> chatSystemPrompt_000(body.chatContextSummary),
                                      state |-> "pending",
                                      status |-> 0,
                                      text |-> << >>,
                                      timeout |-> NoTimeout] >>]

(* ---------------- the single-call server (part_001) ---------------- *)

\* The timeout options of the two fetches of the single-call server, in
\* milliseconds.
ReportTimeout == 600000
ChatTimeout == 60000

CuspHeadingOpen_001 == "**\"V. Cusp Analysis ("

\* The cusp block of the single-call server: the same logic, its section
\* numbered V.
cuspWarningOf_001(userAngle) ==
    IF cuspChecked(userAngle) /\ cuspDetected(userAngle.n)
    THEN [cuspWarningText(userAngle.n) EXCEPT ![8] = CuspHeadingOpen_001]
    ELSE << >>

\* The imageParts array of the single-call server: the images alone.
imagePartsOf_001(scanData) ==
    IF hasFrames(scanData)
    THEN [i \in DOMAIN scanData.capturedFrames |->
              InlinePart(scanData.capturedFrames[i].image)]
    ELSE << TextPart(<< "No visual data provided." >>) >>

VASTU_CONTEXT ==
    "Vastu Zones Context: 1. North (N) ... 8. North-West (NW): Air/Support & Banking"

sharedContext_001(scanData, cuspWarning) ==
    cuspWarning
    \o << "CONTEXT FOR THIS REPORT: - Area Scanned: ",
          scanData.currentRoomTag,
          " - Location (C-Point): The ",
          scanData.currentRoomTag,
          " is in the ",
          jsStringOr(scanData.roomLocationInHouse, "UNKNOWN"),
          " zone of the house. - Floor: ",
          jsStringOr(scanData.floorNumber, "N/A"),
          " - User's Concerns: ",
          scanData.holisticIssues,
          " - Property Surroundings: ",
          scanData.holisticSurroundings,
          " USE THIS CONTEXT FOR VISUAL ANALYSIS: ",
          VASTU_CONTEXT >>

getAiQuery_001(scanData, isDeepAnalysis, cuspWarning) ==
    IF isDeepAnalysis
    THEN << "CRITICAL INSTRUCTION: You are a Master Vastu Shastra Analyst AI. Your task is to provide an ADVANCED, STRUCTURAL Analysis." >>
         \o sharedContext_001(scanData, cuspWarning)
         \o << "CRITICAL TASK: ... **Expert Analysis (Structural Recommendations)** ..." >>
    ELSE << "CRITICAL INSTRUCTION: You are a Master Vastu Shastra Analyst AI, specializing in non-structural, actionable remedies. ..." >>
         \o sharedContext_001(scanData, cuspWarning)
         \o << "The report must be structured into FOUR consecutive sections. ... **II. Visual Segment Analysis and Findings**: ... " >>
         \o [k \in 1..8 |-> ImageTag(k)]
         \o << "**III. Remedial Recommendations (Advanced)** ... If the CUSP WARNING was provided in the context, you MUST also add a brief section titled: **\"V. Cusp Analysis (Alternate Zone)\"** ..." >>

chatSystemPrompt_001(chatContextSummary) ==
    << "You are a helpful and friendly Vastu Shastra AI assistant. ... --- REPORT CONTEXT START --- ",
       chatContextSummary,
       " --- REPORT CONTEXT END --- **GENERAL RULES:** ..." >>

\* /api/generateReport of the single-call server up to its only fetch.
reportStart_001(body) ==
    LET q0 == [NoRequest EXCEPT !.kind = "report", !.body = body]
    IN  IF ~apiKey
        THEN finish(q0, ErrorResponse(<< "Server API Key is not configured." >>))
        ELSE IF ~body.hasScanData
        THEN finish(q0, ErrorResponse(
                 << "Cannot read properties of undefined (reading 'roomLocationInHouse')" >>))
        ELSE LET scanData == body.scanData
                 cuspWarning == cuspWarningOf_001(scanData.roomLocationInHouse)
                 imageParts == imagePartsOf_001(scanData)
                 userQuery == getAiQuery_001(scanData, body.isDeepAnalysis, cuspWarning)
             IN  [q0 EXCEPT !.cuspWarning = cuspWarning,
                            !.imageParts = imageParts,
                            !.userQuery = userQuery,
                            !.pc = "report",
                            !.calls = << [Call("report",
                                              imageParts \o << TextPart(userQuery) >>)
                                          EXCEPT !.timeout = ReportTimeout] >>]

\* A single-call route that puts a title and the separator before the
\* text of the model.
reportSettled_Prefixed(q, out) ==
    IF out.fetch = "rejected" \/ ~ok(out) \/ ~out.json
    THEN finish(markCall(q, 1, "failed", out), ErrorResponse(fetchErrorMessage(out)))
    ELSE finish(markCall(q, 1, "ok", out),
                TextResponse(CoreFallback \o Separator \o textOr(out, << >>)))

\* The only fetch of the single-call report settles: the text of the
\* model, alone, or the catch block.
reportSettled_001(q, out) ==
    IF out.fetch = "rejected"
    THEN finish(markCall(q, 1, "failed", out), ErrorResponse(fetchErrorMessage(out)))
    ELSE IF ~ok(out)
    THEN finish(markCall(q, 1, "failed", out),
                ErrorResponse(apiErrorMessage(
                    "Google API Error (Final Report): ", out)))
    ELSE IF ~out.json
    THEN finish(markCall(q, 1, "failed", out), ErrorResponse(fetchErrorMessage(out)))
    ELSE finish(markCall(q, 1, "ok", out), TextResponse(textOr(out, << >>)))

\* /api/handleChat of the single-call server up to its fetch.
chatStart_001(body) ==
    LET q0 == [NoRequest EXCEPT !.kind = "chat", !.body = body]
    IN  IF ~apiKey
        THEN finish(q0, ErrorResponse(<< "Server API Key is not configured." >>))
        ELSE IF ~body.hasHistory
        THEN finish(q0, ErrorResponse(
                 << "Cannot read properties of undefined (reading 'map')" >>))
        ELSE [q0 EXCEPT !.pc = "chat",
                        !.calls = << [stage |-> "chat",
                                      parts |-> sanitizedHistoryOf(body.chatHistory),
                                      system |-> chatSystemPrompt_001(body.chatContextSummary),
                                      state |-> "pending",
                                      status |-> 0,
                                      text |-> << >>,
                                      timeout |-> ChatTimeout] >>]

(* ---------------- the server ---------------- *)

Init ==
    /\ hDegrees = 0
    /\ hTurns = 0
    /\ hZone = Pending
    /\ hShifted = Pending
    /\ hCusp = NoCusp
    /\ tag = NoTag
    /\ apiKey \in BOOLEAN
    /\ variant = MainVariant
    /\ req = [r \in RequestIds |-> NoRequest]

\* A report request arrives and runs to its first await or to its response.
ReceiveReport(r) ==
    /\ req[r].pc = "idle"
    /\ \E body \in ReportBodies :
           req' = [req EXCEPT ![r] =
                       CASE variant = MainVariant -> reportStart(body)
                         [] variant = OlderVariant -> reportStart_000(body)
                         [] variant = SingleCallVariant -> reportStart_001(body)]
    /\ UNCHANGED << hvars, apiKey, variant >>

\* The external model answers the stage-1 call, or the call fails.
Stage1Settles(r) ==
    /\ req[r].pc = "stage1"
    /\ \E out \in Outcomes :
           req' = [req EXCEPT ![r] =
                       IF variant = OlderVariant
                       THEN stage1Settled_000(req[r], out)
                       ELSE stage1Settled(req[r], out)]
    /\ UNCHANGED << hvars, apiKey, variant >>

\* The external model answers the stage-2 call, or the call fails.
Stage2Settles(r) ==
    /\ req[r].pc = "stage2"
    /\ \E out \in Outcomes :
           req' = [req EXCEPT ![r] =
                       IF variant = OlderVariant
                       THEN stage2Settled_000(req[r], out)
                       ELSE stage2Settled(req[r], out)]
    /\ UNCHANGED << hvars, apiKey, variant >>

\* A chat request arrives and runs to its await or to its response.
ReceiveChat(r) ==
    /\ req[r].pc = "idle"
    /\ \E body \in ChatBodies :
           req' = [req EXCEPT ![r] =
                       CASE variant = MainVariant -> chatStart(body)
                         [] variant = OlderVariant -> chatStart_000(body)
                         [] variant = SingleCallVariant -> chatStart_001(body)]
    /\ UNCHANGED << hvars, apiKey, variant >>

\* The external model answers the chat call, or the call fails.
ChatSettles(r) ==
    /\ req[r].pc = "chat"
    /\ \E out \in Outcomes : req' = [req EXCEPT ![r] = chatSettled(req[r], out)]
    /\ UNCHANGED << hvars, apiKey, variant >>

Next ==
    \E r \in RequestIds :
        \/ ReceiveReport(r)
        \/ Stage1Settles(r)
        \/ Stage2Settles(r)
        \/ ReceiveChat(r)
        \/ ChatSettles(r)

Spec == Init /\ [][Next]_vars

(* ---------------- the three server files, one request each ------------- *)

\* The request followed when the three files are compared.
VariantRequests == { "r1" }

VariantInit ==
    /\ hDegrees = 0
    /\ hTurns = 0
    /\ hZone = Pending
    /\ hShifted = Pending
    /\ hCusp = NoCusp
    /\ tag = NoTag
    /\ apiKey \in BOOLEAN
    /\ variant \in Variants
    /\ req = [r \in RequestIds |-> NoRequest]

\* The external model answers the only call of a single-call report, or
\* the call fails.
ReportSettles(r) ==
    /\ req[r].pc = "report"
    /\ \E out \in Outcomes : req' = [req EXCEPT ![r] = reportSettled_001(req[r], out)]
    /\ UNCHANGED << hvars, apiKey, variant >>

VariantNext ==
    \E r \in VariantRequests :
        \/ ReceiveReport(r)
        \/ Stage1Settles(r)
        \/ Stage2Settles(r)
        \/ ReportSettles(r)
        \/ ReceiveChat(r)
        \/ ChatSettles(r)

VariantSpec == VariantInit /\ [][VariantNext]_vars

(* ---------------- properties of the zone classifier ---------------- *)

ZoneLabels == Range(VASTU_ZONES_16)

Classified == hZone # Pending

\* C1: periodicity: getVastuZone(d) and getVastuZone(d + 360*k) are the
\* same label for every heading d, negative headings included, and every
\* integer k.
ZonePeriodic == Classified => hZone = hShifted

\* C2: totality: for every finite heading, negative or above 360 included,
\* getVastuZone returns one of the 16 labels of the table, never undefined.
ZoneTotal == Classified => hZone \in ZoneLabels

\* The arc of the k-th zone: [22.5*k - 11.25, 22.5*k + 11.25) modulo 360,
\* in quarter degrees.
InArc(d, k) == (d - (90 * k - 45)) % 1440 < 90

\* C3: for every d in [0,360), getVastuZone(d) is the k-th label exactly
\* when d lies in the half-open arc [22.5*k - 11.25, 22.5*k + 11.25)
\* modulo 360: the 16 arcs partition the circle.
ZonesPartitionCircle ==
    (Classified /\ hDegrees >= 0 /\ hDegrees < 1440) =>
        /\ \A k \in 0..15 : (hZone = VASTU_ZONES_16[k + 1]) <=> InArc(hDegrees, k)
        /\ Cardinality({ k \in 0..15 : InArc(hDegrees, k) }) = 1

\* A heading of the arc of N that lies below 360 has been classified.
ZonesPartitionCircleWitness ==
    Classified /\ hDegrees >= 1395 /\ hDegrees < 1440 /\ hZone = "N"

\* C4: for every d with -11.25 <= d < 11.25, getVastuZone(d) is "N", and
\* getVastuZone(11.25) is not "N".
NorthArcPlacement ==
    Classified =>
        /\ (hDegrees >= -45 /\ hDegrees < 45) => hZone = "N"
        /\ hDegrees = 45 => hZone # "N"

\* The heading -11.25 has been classified as N.
NorthArcPlacementWitness == Classified /\ hDegrees = -45 /\ hZone = "N"

(* ---------------- properties of the cusp logic ---------------- *)

\* The zones a warning names: zone1 and otherZone.
WarningZone1(w) == w[4]
WarningOtherZone(w) == w[6]

\* The zones that the section titles carried by a text name.
HeadingZones(text) ==
    { text[i + 1] : i \in { j \in 1..(Len(text) - 2) :
                              /\ text[j] = CuspHeadingOpen
                              /\ text[j + 2] = CuspHeadingClose } }

\* The geometry of a heading d of [0,360): the index of its zone, the
\* distance to the lower boundary of the zone (included in the zone) and
\* to its upper boundary (excluded), in quarter degrees.
ArcIndex(d) == ((d + 45) % 1440) \div 90
LowerDistance(d) == (d + 45) % 90
UpperDistance(d) == 90 - LowerDistance(d)
ZoneBelow(d) == VASTU_ZONES_16[((ArcIndex(d) + 15) % 16) + 1]
ZoneAbove(d) == VASTU_ZONES_16[((ArcIndex(d) + 1) % 16) + 1]

CuspTried == hCusp.done /\ hDegrees > 0 /\ hDegrees < 1440

\* C5 as stated: no warning more than 10 degrees away from both
\* boundaries; within 10 degrees of a boundary, lower or upper, exactly 10
\* degrees included, a warning that names the zone across that boundary.
CuspWithinTenInclusive ==
    CuspTried =>
        /\ (LowerDistance(hDegrees) > 40 /\ UpperDistance(hDegrees) > 40)
               => hCusp.warning = << >>
        /\ LowerDistance(hDegrees) <= 40
               => /\ hCusp.warning # << >>
                  /\ WarningOtherZone(hCusp.warning) = ZoneBelow(hDegrees)
        /\ UpperDistance(hDegrees) <= 40
               => /\ hCusp.warning # << >>
                  /\ WarningOtherZone(hCusp.warning) = ZoneAbove(hDegrees)

\* C5 amended: a warning naming the zone below is produced exactly when
\* the angle is less than 10 degrees above the lower boundary of its zone,
\* a warning naming the zone above exactly when it is at most 10 degrees
\* below the upper boundary, and no warning otherwise (exactly 10 degrees
\* above the lower boundary included).
CuspWithinTenOfBoundary ==
    CuspTried =>
        /\ (LowerDistance(hDegrees) >= 40 /\ UpperDistance(hDegrees) > 40)
               => hCusp.warning = << >>
        /\ LowerDistance(hDegrees) < 40
               => /\ hCusp.warning # << >>
                  /\ WarningZone1(hCusp.warning) = VASTU_ZONES_16[ArcIndex(hDegrees) + 1]
                  /\ WarningOtherZone(hCusp.warning) = ZoneBelow(hDegrees)
        /\ UpperDistance(hDegrees) <= 40
               => /\ hCusp.warning # << >>
                  /\ WarningZone1(hCusp.warning) = VASTU_ZONES_16[ArcIndex(hDegrees) + 1]
                  /\ WarningOtherZone(hCusp.warning) = ZoneAbove(hDegrees)

\* The cusp logic ran on an angle exactly 10 degrees above the lower
\* boundary of its zone and gave no warning.
CuspWithinTenOfBoundaryWitness ==
    CuspTried /\ LowerDistance(hDegrees) = 40 /\ hCusp.warning = << >>

(* ---------------- properties of the report and chat routes ---------- *)

\* The report requests whose handler went through the cusp block.
PastCuspBlock(r) ==
    /\ req[r].kind = "report"
    /\ apiKey
    /\ req[r].body.hasScanData

LocationAngle(r) == req[r].body.scanData.roomLocationInHouse

\* The stage-2 prompt of the request has been built.
HasStage2Prompt(r) == req[r].userQuery # << >>

\* C6 as stated: a location angle of 45.0 gives a cusp warning that names
\* NE as zone1 and a neighbour of NE as otherZone, and the stage-2 prompt
\* carries a section heading naming that zone.
CuspAt45NamesNeighbour ==
    \A r \in RequestIds :
        (PastCuspBlock(r) /\ LocationAngle(r) = NumberValue(Deg(45))) =>
            /\ req[r].cuspWarning # << >>
            /\ WarningZone1(req[r].cuspWarning) = "NE"
            /\ WarningOtherZone(req[r].cuspWarning) \in { "NNE", "ENE" }
            /\ HasStage2Prompt(r) =>
                   HeadingZones(req[r].userQuery)
                       = { WarningOtherZone(req[r].cuspWarning) }

\* C6 amended: a location angle of 45.0 is the centre of the NE arc: it is
\* classified NE, no cusp warning is produced and the stage-2 prompt has
\* no section heading naming an alternate zone.  A location angle of 50.0
\* gives a warning that names NE as zone1 and ENE as otherZone, and the
\* stage-2 prompt carries the section heading naming ENE.
CuspAt45IsCentreOfNE ==
    \A r \in RequestIds :
        /\ (PastCuspBlock(r) /\ LocationAngle(r) = NumberValue(Deg(45))) =>
               /\ zone1Of(LocationAngle(r).n) = "NE"
               /\ req[r].cuspWarning = << >>
               /\ HasStage2Prompt(r) => HeadingZones(req[r].userQuery) = { }
        /\ (PastCuspBlock(r) /\ LocationAngle(r) = NumberValue(Deg(50))) =>
               /\ req[r].cuspWarning # << >>
               /\ WarningZone1(req[r].cuspWarning) = "NE"
               /\ WarningOtherZone(req[r].cuspWarning) = "ENE"
               /\ HasStage2Prompt(r) => HeadingZones(req[r].userQuery) = { "ENE" }

\* Two report requests, one at 45.0 and one at 50.0, have both issued
\* their stage-2 call.
CuspAt45IsCentreOfNEWitness ==
    \E r1, r2 \in RequestIds :
        /\ PastCuspBlock(r1) /\ LocationAngle(r1) = NumberValue(Deg(45))
        /\ PastCuspBlock(r2) /\ LocationAngle(r2) = NumberValue(Deg(50))
        /\ req[r1].pc = "stage2" /\ req[r2].pc = "stage2"

\* C7: when the location angle is not of numeric type or is exactly zero,
\* the cusp warning stays the empty string, whatever the other fields of
\* the scan are, and the stage-2 prompt names no alternate zone.
CuspSkippedWithoutAngle ==
    \A r \in RequestIds :
        (/\ PastCuspBlock(r)
         /\ \/ LocationAngle(r).t # "number"
            \/ LocationAngle(r).n = 0) =>
            /\ req[r].cuspWarning = << >>
            /\ HasStage2Prompt(r) => HeadingZones(req[r].userQuery) = { }

\* A request with the angle 0 and a request with a zone tag for an angle
\* have both issued their stage-2 call.
CuspSkippedWithoutAngleWitness ==
    \E r1, r2 \in RequestIds :
        /\ PastCuspBlock(r1) /\ LocationAngle(r1) = NumberValue(0)
        /\ PastCuspBlock(r2) /\ LocationAngle(r2).t = "string"
        /\ req[r1].pc = "stage2" /\ req[r2].pc = "stage2"

\* C8: the stage-2 call of a request is issued only after its stage-1 call
\* has settled successfully and returned its text: whenever a stage-2 call
\* exists it is the second call, the first is the stage-1 call, that call
\* has ended well and its text is held; stage 2 is never in flight while
\* stage 1 is pending and never issued after a stage-1 failure.
StageOrdering ==
    \A r \in RequestIds :
        \A j \in DOMAIN req[r].calls :
            req[r].calls[j].stage = "stage2" =>
                /\ j = 2
                /\ req[r].calls[1].stage = "stage1"
                /\ req[r].calls[1].state = "ok"
                /\ req[r].coreAssessment # << >>
                /\ req[r].calls[j].parts
                       = << TextPart(getAiQuery(req[r].body.scanData,
                                                req[r].body.isDeepAnalysis,
                                                req[r].coreAssessment,
                                                req[r].cuspWarning)) >>

\* A stage-2 call is in flight.
StageOrderingWitness ==
    \E r \in RequestIds :
        /\ Len(req[r].calls) = 2
        /\ req[r].calls[2].stage = "stage2"
        /\ req[r].calls[2].state = "pending"

\* A request one of whose external calls failed.
CallFailed(r) ==
    \E j \in DOMAIN req[r].calls : req[r].calls[j].state = "failed"

\* C9: whenever the stage-1 or the stage-2 call of a report request fails,
\* the response is an error and carries no report text, in particular not
\* the stage-1 assessment obtained before a stage-2 failure.
NoPartialReport ==
    \A r \in RequestIds :
        (req[r].kind = "report" /\ CallFailed(r)) =>
            /\ req[r].pc = "done"
            /\ Len(req[r].res) = 1
            /\ req[r].res[1].status = 500
            /\ DOMAIN req[r].res[1].body = { "error" }
            /\ Range(req[r].res[1].body.error) \cap Range(req[r].coreAssessment) = { }

\* The stage-2 call of a request failed after stage 1 had returned the
\* text of the model.
NoPartialReportWitness ==
    \E r \in RequestIds :
        /\ Len(req[r].calls) = 2
        /\ req[r].calls[2].state = "failed"
        /\ req[r].coreAssessment = NumberedText
        /\ req[r].res # << >>

\* C10: when an upstream call (stage 1, stage 2 or chat) returns a
\* non-success status, the endpoint responds with status 500 and an error
\* field whose message contains the upstream status code.
UpstreamStatusReported ==
    \A r \in RequestIds :
        \A j \in DOMAIN req[r].calls :
            (/\ req[r].calls[j].state # "pending"
             /\ req[r].calls[j].status \in FailureStatus) =>
                /\ req[r].pc = "done"
                /\ Len(req[r].res) = 1
                /\ req[r].res[1].status = 500
                /\ DOMAIN req[r].res[1].body = { "error" }
                /\ ToString(req[r].calls[j].status)
                       \in Range(req[r].res[1].body.error)

\* A stage-2 call answered 503 and a chat call answered 429.
UpstreamStatusReportedWitness ==
    \E r1, r2 \in RequestIds :
        /\ Len(req[r1].calls) = 2
        /\ req[r1].calls[2].status = 503
        /\ req[r2].kind = "chat"
        /\ Len(req[r2].calls) = 1
        /\ req[r2].calls[1].status = 429

(* ---------------- the credential, the fallbacks, the calls ---------------- *)

KeyMissingMessage == << "Server API Key is not configured." >>

LacksText(call) == call.state = "ok" /\ call.text = << >>

\* The text the handler goes on with in place of the missing one.
SubstituteAt(r, j) ==
    IF req[r].calls[j].stage = "stage1" THEN req[r].coreAssessment
    ELSE IF req[r].calls[j].stage = "stage2"
    THEN SubSeq(req[r].res[1].body.text,
                Len(req[r].coreAssessment) + Len(Separator) + 1,
                Len(req[r].res[1].body.text))
    ELSE req[r].res[1].body.text

\* The request is not failed by the call number j: the handler went on,
\* and once it is done it has sent a success response.
CompletesAfter(r, j) ==
    /\ (req[r].calls[j].stage = "stage1") => req[r].pc \in { "stage2", "done" }
    /\ (req[r].calls[j].stage # "stage1") => req[r].pc = "done"
    /\ (req[r].pc = "done" /\ Len(req[r].calls) = j) =>
           /\ Len(req[r].res) = 1
           /\ req[r].res[1].status = 200
           /\ DOMAIN req[r].res[1].body = { "text" }

\* C12 as stated: a successful response without text is replaced, at
\* stage 1, at stage 2 and in the chat call alike, by a fixed placeholder
\* string (a text, not nothing), and the request completes with success.
MissingTextGetsPlaceholder ==
    \A r \in RequestIds :
        \A j \in DOMAIN req[r].calls :
            LacksText(req[r].calls[j]) =>
                /\ CompletesAfter(r, j)
                /\ (req[r].calls[j].stage = "stage1" \/ req[r].pc = "done") =>
                       /\ SubstituteAt(r, j) \in { CoreFallback, ChatFallback }

\* C12 amended: a successful response without text is not an error and
\* the request completes with a success response; the missing text is
\* replaced by the fixed assessment placeholder at stage 1 and by the
\* fixed apology in the chat call, and by the empty string at stage 2, so
\* that the report then ends with the separator.
MissingTextIsNotAnError ==
    \A r \in RequestIds :
        \A j \in DOMAIN req[r].calls :
            LacksText(req[r].calls[j]) =>
                /\ CompletesAfter(r, j)
                /\ (req[r].calls[j].stage = "stage1") =>
                       SubstituteAt(r, j) = CoreFallback
                /\ (req[r].calls[j].stage = "chat") =>
                       SubstituteAt(r, j) = ChatFallback
                /\ (req[r].calls[j].stage = "stage2") =>
                       /\ SubstituteAt(r, j) = << >>
                       /\ req[r].res[1].body.text =
                              req[r].coreAssessment \o Separator

\* A report whose two calls both came back without text has been sent,
\* and so has a chat reply to a response without text.
MissingTextIsNotAnErrorWitness ==
    \E r1, r2 \in RequestIds :
        /\ req[r1].pc = "done"
        /\ Len(req[r1].calls) = 2
        /\ LacksText(req[r1].calls[1])
        /\ LacksText(req[r1].calls[2])
        /\ req[r2].kind = "chat"
        /\ req[r2].pc = "done"
        /\ Len(req[r2].calls) = 1
        /\ LacksText(req[r2].calls[1])

\* C13: every external call carries an explicit timeout (so that a call
\* the model never answers fails its request instead of leaving it
\* without a response for ever).
EveryCallHasTimeout ==
    \A r \in RequestIds :
        \A j \in DOMAIN req[r].calls :
            req[r].calls[j].timeout # NoTimeout

\* The number of the external calls of a request that belong to a stage.
CallsOfStage(r, stage) ==
    Cardinality({ j \in DOMAIN req[r].calls : req[r].calls[j].stage = stage })

\* C14: no retries.  A report request issues at most one stage-1 call and
\* at most one stage-2 call and nothing else, a chat request at most one
\* call, whether the calls succeed or fail.
NoRetries ==
    \A r \in RequestIds :
        /\ CallsOfStage(r, "stage1") <= 1
        /\ CallsOfStage(r, "stage2") <= 1
        /\ CallsOfStage(r, "chat") <= 1
        /\ (req[r].kind = "report") =>
               /\ CallsOfStage(r, "chat") = 0
               /\ Len(req[r].calls) <= 2
        /\ (req[r].kind = "chat") => Len(req[r].calls) = CallsOfStage(r, "chat")

\* A report whose stage-1 call failed and a chat whose call failed have
\* both been answered.
NoRetriesWitness ==
    \E r1, r2 \in RequestIds :
        /\ req[r1].kind = "report" /\ req[r1].pc = "done"
        /\ Len(req[r1].calls) = 1 /\ req[r1].calls[1].state = "failed"
        /\ req[r2].kind = "chat" /\ req[r2].pc = "done"
        /\ Len(req[r2].calls) = 1 /\ req[r2].calls[1].state = "failed"

NoVisualData == TextPart(<< "No visual data provided." >>)

\* A report request with scan data whose frame list is empty or absent.
WithoutFrames(r) ==
    /\ req[r].kind = "report"
    /\ req[r].body.hasScanData
    /\ ~hasFrames(req[r].body.scanData)

\* C15: with an empty or absent frame list and the key present, the
\* report request builds the single "no visual data" text part, raises no
\* error before the external call, and issues the stage-1 call with that
\* part followed by the prompt.
NoFramesStillCallsStage1 ==
    \A r \in RequestIds :
        (apiKey /\ WithoutFrames(r)) =>
            /\ req[r].imageParts = << NoVisualData >>
            /\ Len(req[r].calls) >= 1
            /\ req[r].calls[1].stage = "stage1"
            /\ req[r].calls[1].parts =
                   << NoVisualData,
                      TextPart(coreQuery(req[r].body.scanData, << NoVisualData >>)) >>
            /\ (req[r].calls[1].state = "pending") => req[r].res = << >>

\* One request came without a frame list and one with an empty list, and
\* the stage-1 call of both is in flight.
NoFramesStillCallsStage1Witness ==
    \E r1, r2 \in RequestIds :
        /\ apiKey
        /\ WithoutFrames(r1) /\ ~req[r1].body.scanData.hasFrames
        /\ WithoutFrames(r2) /\ req[r2].body.scanData.hasFrames
        /\ req[r1].pc = "stage1"
        /\ req[r2].pc = "stage1"

\* The pictographic characters of the messages: the symbol signs and the
\* emoji beyond the basic plane.
Pictographs == { Copyright, Star, Emoji }

\* C16: in the history forwarded to the model, every user-authored message
\* has lost every pictographic character of its text (the emoji of the
\* surrogate-pair ranges as well as the symbols), and every model-authored
\* entry is forwarded unmodified.
ChatHistorySanitized ==
    \A r \in RequestIds :
        (req[r].kind = "chat" /\ req[r].calls # << >>) =>
            LET sent == req[r].calls[1].parts
                came == req[r].body.chatHistory
            IN  /\ Len(sent) = Len(came)
                /\ \A i \in DOMAIN sent :
                       IF came[i].role = "user"
                       THEN /\ sent[i].role = "user"
                            /\ Range(sent[i].parts[1]) \cap Pictographs = { }
                       ELSE sent[i] = came[i]

(* ---------------- the tagging of the stage-1 text ---------------- *)

\* Whether a text holds the tag number k immediately followed by the
\* content of the numbered line k.
TaggedLine(text, k) ==
    \E i \in DOMAIN text :
        /\ text[i] = ImageTag(k)
        /\ i + 1 \in DOMAIN text
        /\ text[i + 1] = NumberedLine(k)[2]

\* Whether some line of a text begins with a bare numeric marker.
BareMarker(text) ==
    \E i \in DOMAIN text : LineStart(text, i) /\ text[i] \in Markers

AllTagged(text) ==
    /\ \A k \in 1..SegmentCount : TaggedLine(text, k)
    /\ ~BareMarker(text)

\* C17: when the stage-1 response is made of 8 well-formed numbered lines
\* 1..8, the text handed to stage 2 and the text put in the final report
\* hold the 8 tags [IMAGE_1_ANALYSIS]..[IMAGE_8_ANALYSIS], each followed by
\* the content of its line, and no line begins with a bare marker.
Stage1TextTagged ==
    \A r \in RequestIds :
        (/\ req[r].kind = "report"
         /\ Len(req[r].calls) = 2
         /\ req[r].calls[1].text = NumberedText) =>
            /\ AllTagged(req[r].coreAssessment)
            /\ \E i \in 1..(Len(req[r].userQuery) - Len(req[r].coreAssessment) + 1) :
                   SubSeq(req[r].userQuery, i, i + Len(req[r].coreAssessment) - 1)
                       = req[r].coreAssessment
            /\ (req[r].res # << >> /\ req[r].res[1].status = 200) =>
                   AllTagged(SubSeq(req[r].res[1].body.text, 1,
                                    Len(req[r].coreAssessment)))

\* C18: the tagging step is idempotent: applied to a text it has already
\* tagged, it returns that text unchanged.
TaggingIdempotent ==
    (tag.pc = "twice") => (tag.twice = tag.once)

\* The step has run twice on a text in which it put a tag and from which
\* it took two markers at the start of one line.
TaggingIdempotentWitness ==
    /\ tag.pc = "twice"
    /\ \E i \in DOMAIN tag.text :
           /\ LineStart(tag.text, i)
           /\ tag.text[i] \in Markers
           /\ i + 1 \in DOMAIN tag.text
           /\ tag.text[i + 1] \in Markers
    /\ \E k \in 1..SegmentCount :
           /\ ImageTag(k) \in Range(tag.once)
           /\ ImageTag(k) \notin Range(tag.text)
    /\ ~BareMarker(tag.once)

(* ---------------- the assembly of the final report ---------------- *)

\* A report request that was answered with a success response.
ReportSent(r) ==
    /\ req[r].kind = "report"
    /\ req[r].res # << >>
    /\ req[r].res[1].status = 200

\* The text the stage-1 call number j of a request yields: the text of the
\* response, the fallback sentence when it has none.
Stage1TextOf(r, j) ==
    IF req[r].calls[j].text = << >> THEN CoreFallback ELSE req[r].calls[j].text

\* C19: the text of a successful report response is, in the two-stage
\* pipeline, exactly the stage-1 text, then the fixed separator, then the
\* stage-2 text verbatim; in the single-call variant it is exactly the
\* output of the model, alone.
FinalReportAssembly ==
    \A r \in RequestIds :
        ReportSent(r) =>
            IF variant = SingleCallVariant
            THEN /\ Len(req[r].calls) = 1
                 /\ req[r].res[1].body.text = req[r].calls[1].text
            ELSE /\ Len(req[r].calls) = 2
                 /\ req[r].res[1].body.text =
                        Stage1TextOf(r, 1) \o Separator \o req[r].calls[2].text

\* The single-call server has answered a report request with the text of
\* the model.
FinalReportAssemblyWitness ==
    /\ variant = SingleCallVariant
    /\ \E r \in RequestIds :
           /\ ReportSent(r)
           /\ req[r].res[1].body.text = NumberedText

(* ---------------- the independence of the requests ---------------- *)

Settled(call) == call.state # "pending"

\* The answer of the external model that a settled call records.
OutcomeOf(call) ==
    CHOOSE out \in Outcomes :
        /\ out.status = call.status
        /\ out.text = call.text
        /\ (call.state = "ok") = (out.fetch = "resolved" /\ ok(out) /\ out.json)

\* The report request q run alone: from its body, with the answers its
\* own calls got, as far as they have come.
AloneReport(q) ==
    LET q1 == reportStart(q.body)
        q2 == IF q1.pc = "stage1" /\ Settled(q.calls[1])
              THEN stage1Settled(q1, OutcomeOf(q.calls[1]))
              ELSE q1
        q3 == IF q2.pc = "stage2" /\ Len(q.calls) = 2 /\ Settled(q.calls[2])
              THEN stage2Settled(q2, OutcomeOf(q.calls[2]))
              ELSE q2
    IN  q3

\* The chat request q run alone.
AloneChat(q) ==
    LET q1 == chatStart(q.body)
    IN  IF q1.pc = "chat" /\ Settled(q.calls[1])
        THEN chatSettled(q1, OutcomeOf(q.calls[1]))
        ELSE q1

\* C20: the requests are independent.  Whatever the order in which the
\* requests in flight arrive and their calls settle, the locals, the calls
\* and the response of each request are what the request gets when it runs
\* alone on its body with the same upstream answers.
RequestsIndependent ==
    \A r \in RequestIds :
        /\ (req[r].kind = "report") => req[r] = AloneReport(req[r])
        /\ (req[r].kind = "chat") => req[r] = AloneChat(req[r])

\* Two report requests with different cusp warnings and different image
\* parts are both suspended at their stage-2 call, and so at one time
\* both were suspended at stage 1.
RequestsIndependentWitness ==
    \E r1, r2 \in RequestIds :
        /\ req[r1].pc = "stage2"
        /\ req[r2].pc = "stage2"
        /\ req[r1].cuspWarning # << >>
        /\ req[r2].cuspWarning # << >>
        /\ req[r1].cuspWarning # req[r2].cuspWarning
        /\ req[r1].imageParts # req[r2].imageParts
        /\ req[r1].coreAssessment # req[r2].coreAssessment

(* ---------------- the place of the cusp warning in the prompt ---------- *)

\* The tokens of the stage-2 prompt that carry the stage-1 findings and
\* the fields of the scan context.
FindingsAndContext(r) ==
    LET scanData == req[r].body.scanData
    IN  Range(req[r].coreAssessment)
        \cup { "CORE VASTU FINDINGS (MUST BE USED AS THE BASIS FOR ALL REMEDIES):",
               scanData.currentRoomTag,
               jsStringOr(scanData.roomLocationInHouse, "UNKNOWN"),
               jsStringOr(scanData.floorNumber, "N/A"),
               scanData.holisticIssues,
               scanData.holisticSurroundings }

\* The places of the prompt at which the cusp warning stands, whole.
WarningPlaces(r) ==
    { i \in 1..(Len(req[r].userQuery) - Len(req[r].cuspWarning) + 1) :
          SubSeq(req[r].userQuery, i, i + Len(req[r].cuspWarning) - 1)
              = req[r].cuspWarning }

\* C21: in the stage-2 prompt, in the deep and in the standard mode, the
\* cusp warning, when there is one, stands before the stage-1 findings
\* and before every field of the scan context (room, location, floor,
\* concerns, surroundings).
CuspWarningFirst ==
    \A r \in RequestIds :
        (HasStage2Prompt(r) /\ req[r].cuspWarning # << >>) =>
            /\ WarningPlaces(r) # { }
            /\ \A i \in WarningPlaces(r) :
                   \A j \in DOMAIN req[r].userQuery :
                       (req[r].userQuery[j] \in FindingsAndContext(r)) =>
                           j > i + Len(req[r].cuspWarning) - 1

\* A deep and a standard request, both with a cusp warning, have built
\* their stage-2 prompts.
CuspWarningFirstWitness ==
    \E r1, r2 \in RequestIds :
        /\ HasStage2Prompt(r1) /\ req[r1].cuspWarning # << >>
        /\ req[r1].body.isDeepAnalysis
        /\ HasStage2Prompt(r2) /\ req[r2].cuspWarning # << >>
        /\ ~req[r2].body.isDeepAnalysis
        /\ req[r1].coreAssessment = NumberedText

(* ---------------- the visual segments of the stage-1 prompt ---------- *)

\* The number of captured frames of the scan of a report request.
FrameCount(r) ==
    IF hasFrames(req[r].body.scanData)
    THEN Len(req[r].body.scanData.capturedFrames)
    ELSE 0

\* The number of visual segments the stage-1 prompt of a request names.
SegmentsNamed(r) ==
    LET parts == req[r].calls[1].parts
    IN  parts[Len(parts)].text[2]

\* C22: the number of visual segments that the stage-1 prompt tells the
\* model to examine is N, the number of captured frames of the scan, for
\* every N >= 0, and the image part of each frame is followed by a text
\* part that gives its heading and its zone.
SegmentCountIsFrameCount ==
    \A r \in RequestIds :
        (req[r].kind = "report" /\ req[r].calls # << >>) =>
            /\ SegmentsNamed(r) = ToString(FrameCount(r))
            /\ \A i \in 1..FrameCount(r) :
                   LET frame == req[r].body.scanData.capturedFrames[i]
                       parts == req[r].calls[1].parts
                   IN  /\ parts[2 * i - 1] = InlinePart(frame.image)
                       /\ parts[2 * i].kind = "text"
                       /\ toFixed1(frame.heading.n) \in Range(parts[2 * i].text)
                       /\ frame.zone \in Range(parts[2 * i].text)

(* ---------------- the alternate zone of a cusp warning ---------------- *)

\* Whether two labels stand next to each other in the 16-zone table, the
\* last one next to the first.
CyclicNeighbours(z1, z2) ==
    \E i \in 1..16 :
        /\ VASTU_ZONES_16[i] = z1
        /\ z2 \in { VASTU_ZONES_16[(i % 16) + 1], VASTU_ZONES_16[((i + 14) % 16) + 1] }

\* C23: whenever a cusp warning is produced for a non-zero numeric angle,
\* the alternate zone it names differs from the primary zone and is one of
\* the two cyclic neighbours of the primary zone in the 16-zone table,
\* also across the 0/360 wrap-around.
AlternateIsNeighbour ==
    (hCusp.done /\ hDegrees # 0 /\ hCusp.warning # << >>) =>
        /\ WarningOtherZone(hCusp.warning) # WarningZone1(hCusp.warning)
        /\ CyclicNeighbours(WarningZone1(hCusp.warning),
                            WarningOtherZone(hCusp.warning))

\* C24: for every location angle in [0,360), the classifications of the
\* angle plus 10 degrees and of the angle minus 10 degrees never both
\* differ from the primary zone, so the preference for the +10 result
\* never decides: the alternate zone is zone2 exactly when zone2 differs
\* and zone3 exactly when zone3 differs.
TieBreakNeverDecides ==
    (hCusp.done /\ hDegrees >= 0 /\ hDegrees < FullCircle) =>
        LET zone1 == zone1Of(hDegrees)
            zone2 == zone2Of(hDegrees)
            zone3 == zone3Of(hDegrees)
        IN  /\ ~(zone2 # zone1 /\ zone3 # zone1)
            /\ (hDegrees # 0) =>
                   /\ (hCusp.warning # << >>) = (zone2 # zone1 \/ zone3 # zone1)
                   /\ (zone2 # zone1) =>
                          WarningOtherZone(hCusp.warning) = zone2
                   /\ (zone3 # zone1) =>
                          WarningOtherZone(hCusp.warning) = zone3

\* The cusp logic has run on an angle of the part of N below 360 degrees
\* whose -10 degree classification differs.
TieBreakNeverDecidesWitness ==
    /\ hCusp.done
    /\ hDegrees >= FullCircle - offset /\ hDegrees < FullCircle
    /\ zone3Of(hDegrees) # zone1Of(hDegrees)
    /\ WarningOtherZone(hCusp.warning) = "NNW"

(* ---------------- the responses of a request ---------------- *)

\* A success response: a text field and nothing else.
IsSuccess(response) ==
    response.status = 200 /\ DOMAIN response.body = { "text" }

\* A failure response: status 500, an error field and nothing else.
IsFailure(response) ==
    response.status = 500 /\ DOMAIN response.body = { "error" }

ContextThrows(body) ==
    \/ ~body.hasScanData
    \/ /\ body.hasScanData
       /\ imagePartsThrow(body.scanData)

\* C26: a report request whose context raises an exception before stage 1
\* ends with one status-500 error response, and no external model call is
\* issued for it.
ContextErrorMakesNoCall ==
    \A r \in RequestIds :
        (req[r].kind = "report" /\ ContextThrows(req[r].body)) =>
            /\ req[r].calls = << >>
            /\ req[r].pc = "done"
            /\ Len(req[r].res) = 1
            /\ IsFailure(req[r].res[1])

\* With the key configured, one request came without scanData and another
\* with a frame without a numeric heading; each was answered with the
\* message of its TypeError.
ContextErrorMakesNoCallWitness ==
    /\ apiKey
    /\ \E r1, r2 \in RequestIds :
           /\ req[r1].kind = "report"
           /\ ~req[r1].body.hasScanData
           /\ Len(req[r1].res) = 1
           /\ req[r1].res[1].body.error =
                  << "Cannot read properties of undefined (reading 'roomLocationInHouse')" >>
           /\ req[r2].kind = "report"
           /\ req[r2].body.hasScanData
           /\ imagePartsThrow(req[r2].body.scanData)
           /\ Len(req[r2].res) = 1
           /\ req[r2].res[1].body.error =
                  << "Cannot read properties of undefined (reading 'toFixed')" >>

====
